---- MODULE Spec2Model ----
(***************************************************************************)
(* The image store (store/imageStore.ts) and the dual background-removal   *)
(* service (services/aiService.ts) of the photo-automation editor.         *)
(*                                                                         *)
(* JavaScript runs one task at a time: an action below is one task, i.e.   *)
(* the code from one resume point up to the next await.  Promise           *)
(* continuations whose promise is already settled (microtasks) run before  *)
(* any user event or I/O completion, so while such a continuation is       *)
(* pending (warmup.pc # "idle") no other action is enabled.                *)
(*                                                                         *)
(* The Photoroom client (services/photoroomService.ts) is modelled at two  *)
(* levels.  The store specifications take the outcome of a call as one     *)
(* step (photoroomSettle) and are for a deployment without a sandbox key,  *)
(* where the client's credential never changes.  RemoteSpec follows the    *)
(* HTTP exchange of each call: fetch, reading the body, the fallback to    *)
(* the sandbox key.  lastError and creditsUsed of the client are written   *)
(* but read by no code of the application and are left out.                *)
(*                                                                         *)
(* The geometry of imageProcessor.resizeImage and addWatermark is a pure   *)
(* computation; GeometrySpec draws its arguments in the initial state and  *)
(* applies it.  Quotients of integers are doubles in the source: where the *)
(* exact quotient lies halfway between two integers the double may fall    *)
(* just below the half, so Math.round of it is either neighbour (tieDown). *)
(* The watermark size is not rounded and is kept as an exact fraction.     *)
(***************************************************************************)
EXTENDS Integers, Sequences, FiniteSets, TLC

\* ------------------------------------------------------------------ bounds
MaxJobs == 2        \* jobs ever created
MaxRuns == 3        \* processImage / reprocessImage runs ever started
MaxDownloads == 2   \* export handler invocations in progress at once
MaxLegacy == 2      \* invocations of aiService.removeBackground
MaxSide == 8        \* image widths and heights 1..MaxSide, next to a few large ones

\* ------------------------------------------------------------------ inputs
Files == << [name |-> <<"a", ".", "b", ".", "j">>, width |-> 800, height |-> 600],
            [name |-> <<"c">>, width |-> 400, height |-> 400] >>
Uploads == { <<1>>, <<1, 2>> }     \* the file lists handed to addImages
JobIds == 1..MaxJobs
RunIds == 1..MaxRuns
DownloadIds == 1..MaxDownloads
LegacyIds == 1..MaxLegacy
ConfigKeys == {"configured"}       \* the apiKey handed to configure()
RemoteOutcomes == {"ok", "failed", "quota"}   \* what photoroomService.removeBackground answers
Providers == {"imgly", "photoroom", "both"}   \* the argument of handleDownloadAll
Watermarks == {1}                  \* a { file, scale } value
NoWatermark == 0                   \* null / undefined
EditSize == [width |-> 500, height |-> 500]   \* the size a dimension edit asks for
EditWidth == EditSize.width
EditHeight == EditSize.height
ModeArgs == {"undef", "fill"}      \* resizeMode argument (undef = omitted)
LockArgs == {"undef", "false"}     \* maintainAspectRatio argument
NewNames == { <<"n">> }
ProgressReports == {50}            \* percentages reported by the imgly library

Statuses == {200, 401, 402, 429, 500}   \* HTTP status of a Photoroom response

ErrLoad == "AI model yuklenemedi"
ErrDims == "Goruntu boyutlari alinamadi"
ErrComposite == "Goruntu yuklenemedi"

\* ------------------------------------------------------------------- blobs
NullBlob == [run |-> 0, prov |-> "none", white |-> FALSE, wm |-> NoWatermark]
\* the transparent image a provider's removal call of run r resolves with
RemovedBlob(r, p) == [run |-> r, prov |-> p, white |-> FALSE, wm |-> NoWatermark]
\* imageProcessor.applyWhiteBackground: opaque white-filled copy
applyWhiteBackground(b) == [b EXCEPT !.white = TRUE]
\* imageProcessor.addWatermark: the watermark drawn onto the image
addWatermark(b, w) == [b EXCEPT !.wm = w]

\* ------------------------------------------------------------------- state
VARIABLES
  images,           \* store.images: sequence of ImageObject
  isModelLoading,   \* store.isModelLoading
  modelLoadError,   \* store.modelLoadError ("null" or a message)
  globalWatermark,  \* store.globalWatermark
  isInitialized,    \* aiService.isInitialized
  isLoading,        \* aiService.isLoading
  photoroomReady,   \* photoroomService.isReady()
  apiKey,           \* photoroomService.apiKey: "" or the key it holds
  sandboxKey,       \* photoroomService.sandboxKey is not empty
  currentKey,       \* photoroomService.currentKey: "" or the key it holds
  usingSandbox,     \* photoroomService.usingSandbox
  canvas,           \* the resizeImage / addWatermark call under study
  downloads,        \* the export handler invocations (BulkActions, ComparisonView)
  legacy,           \* the invocations of the single-result aiService.removeBackground
  nextId,           \* number of job ids handed out so far
  warmup,           \* the initializeModel().then().catch() chain of addImages
  runs              \* the processImage / reprocessImage invocations

vars == << images, isModelLoading, modelLoadError, globalWatermark,
           isInitialized, isLoading, photoroomReady, apiKey, sandboxKey,
           currentKey, usingSandbox, canvas, downloads, legacy, legacy, nextId, warmup, runs >>

\* the credential state of the Photoroom client
serviceVars == << apiKey, sandboxKey, currentKey, usingSandbox >>

\* http, status, key and requests are the photoroomService.removeBackground
\* call of the run: its resume point, the status of the response whose body
\* is being read, the X-Api-Key of its latest request, the requests it made
NoRun == [id |-> 0, kind |-> "none", pc |-> "unused", file |-> 0,
          imgly |-> "none", photoroom |-> "none", reported |-> 0,
          imglyWithBg |-> NullBlob,
          http |-> "none", status |-> 0, key |-> "none", requests |-> 0]
EndedRun(r) == [NoRun EXCEPT !.id = r.id, !.kind = r.kind, !.pc = "ended"]
\* an export handler invocation: pc is its resume point ("idle": none in
\* progress), queue the resizeImage calls it has still to make for the images
\* it captured, each <<job id, provider>>, fileCount the local counter of
\* handleDownloadAll, errors the resize errors it has logged, last how the
\* previous invocation ended
NoDownload == [pc |-> "idle", handler |-> "none", queue |-> << >>, fileCount |-> 0, errors |-> 0, last |-> "none"]
\* an invocation of the single-result aiService.removeBackground: pc is its
\* resume point, remote the answer of the Photoroom client ("none": not
\* called), remoteCalls and localCalls the calls made to the client and to
\* the imgly library, result what the invocation settled with
NoLegacy == [pc |-> "idle", remote |-> "none", remoteCalls |-> 0, localCalls |-> 0, result |-> "none"]
IdleWarmup == [pc |-> "idle", newIds |-> << >>, failed |-> FALSE, rejected |-> FALSE]

\* --------------------------------------------------------------- helpers
\* file.name.replace(/\.[^/.]+$/, '')
StripExt(name) ==
  LET dots == { k \in 1..Len(name) : name[k] = "." }
  IN  IF dots = {} THEN name
      ELSE LET k == CHOOSE d \in dots : \A e \in dots : e <= d
           IN  IF k < Len(name) /\ \A j \in (k+1)..Len(name) : name[j] # "/"
               THEN SubSeq(name, 1, k - 1)
               ELSE name

\* fault variant: the new job is named after the whole file name
NewImageKeepExt(id, f) ==
  [ id |-> id, originalFile |-> f, imglyBlob |-> NullBlob, photoroomBlob |-> NullBlob,
    status |-> "idle", dimensions |-> <<0, 0>>, newName |-> Files[f].name,
    resizeMode |-> "undef", maintainAspectRatio |-> "undef", watermark |-> NoWatermark,
    imglyProgress |-> -1, photoroomProgress |-> -1, processingStage |-> "undef",
    errorMessage |-> "undef" ]

\* the object literal of addImages
NewImage(id, f) ==
  [ id |-> id, originalFile |-> f, imglyBlob |-> NullBlob, photoroomBlob |-> NullBlob,
    status |-> "idle", dimensions |-> <<0, 0>>, newName |-> StripExt(Files[f].name),
    resizeMode |-> "undef", maintainAspectRatio |-> "undef", watermark |-> NoWatermark,
    imglyProgress |-> -1, photoroomProgress |-> -1, processingStage |-> "undef",
    errorMessage |-> "undef" ]

Ids(imgs) == { imgs[i].id : i \in 1..Len(imgs) }
Find(imgs, id) == imgs[CHOOSE i \in 1..Len(imgs) : imgs[i].id = id]

\* fault variant: an update that inserts the image when it is not in the list
SetImageUpsert(imgs, id, patch) ==
  IF id \in Ids(imgs)
  THEN [ i \in 1..Len(imgs) |-> IF imgs[i].id = id THEN patch @@ imgs[i] ELSE imgs[i] ]
  ELSE Append(imgs, patch @@ NewImage(id, 1))

\* fault variant: an update that patches every image of the list
SetImageAll(imgs, id, patch) ==
  [ i \in 1..Len(imgs) |-> patch @@ imgs[i] ]

\* state.images.map((img) => img.id === id ? { ...img, ...patch } : img)
SetImage(imgs, id, patch) ==
  [ i \in 1..Len(imgs) |-> IF imgs[i].id = id THEN patch @@ imgs[i] ELSE imgs[i] ]

\* Math.round(progress * 0.4) for a percentage 0..100
Round04(p) == (4 * p + 5) \div 10

FreeRuns(rs) == { r \in RunIds : rs[r].pc = "unused" }
FreshRun(rs) == CHOOSE r \in FreeRuns(rs) : \A q \in FreeRuns(rs) : r <= q

\* fault variant: a call always sends its first request with the primary key
removeBackgroundPrimaryFirst(run) ==
  IF ~photoroomReady
  THEN [run EXCEPT !.photoroom = "fail", !.http = "none", !.status = 0]
  ELSE [run EXCEPT !.photoroom = "pending", !.http = "fetch", !.status = 0,
                   !.key = "apiKey", !.requests = @ + 1]

\* photoroomService.removeBackground up to its await of fetch
removeBackground(run) ==
  IF ~photoroomReady
  THEN [run EXCEPT !.photoroom = "fail", !.http = "none", !.status = 0]
  ELSE [run EXCEPT !.photoroom = "pending", !.http = "fetch", !.status = 0,
                   !.key = currentKey, !.requests = @ + 1]

\* fault variant: the Photoroom call is made whether or not a key is configured
DualStartedUnguarded(run) ==
  [ [run EXCEPT !.pc = "dual", !.imgly = "pending", !.reported = 0]
      EXCEPT !.photoroom = "pending", !.http = "fetch",
             !.key = currentKey, !.requests = @ + 1 ]

\* aiService.removeBackgroundDual up to its await: both provider calls
\* are issued; the Photoroom branch throws at once when not configured
DualStarted(run) ==
  LET started == [run EXCEPT !.pc = "dual", !.imgly = "pending", !.reported = 0]
  IN  IF photoroomReady THEN removeBackground(started)
      ELSE [started EXCEPT !.photoroom = "fail"]

\* processImage(id) up to the await of getImageDimensions
processImageStart(st, id) ==
  IF id \notin Ids(st.images) THEN st
  ELSE LET image == Find(st.images, id)
           r == FreshRun(st.runs)
           i1 == SetImage(st.images, id,
                   [status |-> "processing", imglyProgress |-> 0, photoroomProgress |-> 0])
           i2 == SetImage(i1, id,
                   [processingStage |-> "removing-bg", imglyProgress |-> 5,
                    photoroomProgress |-> 5])
       IN  [ images |-> i2,
             runs |-> [st.runs EXCEPT ![r] =
                        [NoRun EXCEPT !.id = id, !.kind = "process", !.pc = "dims",
                                      !.file = image.originalFile]] ]

\* reprocessImage(id) for an image found, up to the await of
\* removeBackgroundDual
ReprocessStarted(st, id) ==
  LET image == Find(st.images, id)
      r == FreshRun(st.runs)
      i1 == SetImage(st.images, id,
              [status |-> "processing", imglyProgress |-> 0, photoroomProgress |-> 0])
      i2 == SetImage(i1, id,
              [processingStage |-> "removing-bg", imglyProgress |-> 10,
               photoroomProgress |-> 10])
  IN  [ images |-> i2,
        runs |-> [st.runs EXCEPT ![r] =
                   DualStarted([NoRun EXCEPT !.id = id, !.kind = "reprocess",
                                             !.file = image.originalFile])] ]

\* fault variant: a re-run that is skipped for a job already processing
reprocessImageSkipBusy(st, id) ==
  IF id \notin Ids(st.images) THEN st
  ELSE IF Find(st.images, id).status = "processing" THEN st
  ELSE ReprocessStarted(st, id)

\* reprocessImage(id): returns at once when the image is not found
reprocessImageStart(st, id) ==
  IF id \notin Ids(st.images) THEN st ELSE ReprocessStarted(st, id)

\* ids.forEach((id) => get().processImage(id))
RECURSIVE processEach(_, _)
processEach(st, ids) ==
  IF ids = << >> THEN st
  ELSE processEach(processImageStart(st, Head(ids)), Tail(ids))

\* ids.forEach((id) => get().reprocessImage(id))
RECURSIVE reprocessEach(_, _)
reprocessEach(st, ids) ==
  IF ids = << >> THEN st
  ELSE reprocessEach(reprocessImageStart(st, Head(ids)), Tail(ids))

IdSeq(imgs) == [ i \in 1..Len(imgs) |-> imgs[i].id ]

\* ---------------------------------------------------------------- geometry
Sides == 1..MaxSide \cup {300, 400, 600, 800}     \* widths and heights for resizeImage
SmallSides == 1..MaxSide                          \* widths and heights for addWatermark
ResizeModes == {"fit", "fill", "stretch"}
Scales == { <<1, 4>>, <<1, 2>>, <<4, 5>>, <<1, 1>> }   \* scale as numerator, denominator

NoCalc == [width |-> 0, height |-> 0, offsetX |-> 0, offsetY |-> 0]
NoRect == [x |-> <<0, 1>>, y |-> <<0, 1>>, w |-> <<0, 1>>, h |-> <<0, 1>>]
\* no call: op is "resize" or "watermark" for a call, pc "input" before and
\* "done" after it; a, b are the two sizes handed in, out the output canvas,
\* src and dst the source and destination rectangles of the final drawImage
NoCanvas == [op |-> "none", pc |-> "none", a |-> <<0, 0>>, b |-> <<0, 0>>,
             mode |-> "fit", scale |-> <<1, 1>>, calc |-> NoCalc,
             out |-> <<0, 0>>, src |-> NoRect, dst |-> NoRect]

\* Math.round(p / q) for positive integers; at a tie either neighbour
Round(p, q, tieDown) ==
  IF (2 * p) % (2 * q) = q /\ tieDown THEN p \div q ELSE (2 * p + q) \div (2 * q)

\* Math.round(n / 2) for an integer n: halves round towards +infinity
RoundHalf(n) == (n + 1) \div 2

Abs(n) == IF n < 0 THEN -n ELSE n

\* fractions as << numerator, denominator >> with a positive denominator
Whole(n) == <<n, 1>>
Leq(f, g) == f[1] * g[2] <= g[1] * f[2]
Eq(f, g) == f[1] * g[2] = g[1] * f[2]
Times(f, g) == << f[1] * g[1], f[2] * g[2] >>
Minus(f, g) == << f[1] * g[2] - g[1] * f[2], f[2] * g[2] >>
Halve(f) == << f[1], 2 * f[2] >>

\* height = Math.round(targetWidth / originalRatio), centred vertically
ScaleToWidth(originalWidth, originalHeight, targetWidth, targetHeight, tieDown) ==
  LET height == Round(targetWidth * originalHeight, originalWidth, tieDown)
  IN  [width |-> targetWidth, height |-> height,
       offsetX |-> 0, offsetY |-> RoundHalf(targetHeight - height)]

\* width = Math.round(targetHeight * originalRatio), centred horizontally
ScaleToHeight(originalWidth, originalHeight, targetWidth, targetHeight, tieDown) ==
  LET width == Round(targetHeight * originalWidth, originalHeight, tieDown)
  IN  [width |-> width, height |-> targetHeight,
       offsetX |-> RoundHalf(targetWidth - width), offsetY |-> 0]

\* fault variant: fit takes the branches of fill
calculateTargetDimensionsSwapped(originalWidth, originalHeight, targetWidth, targetHeight, mode, tieDown) ==
  LET wider == originalWidth * targetHeight > targetWidth * originalHeight
  IN  IF mode = "stretch"
      THEN [width |-> targetWidth, height |-> targetHeight, offsetX |-> 0, offsetY |-> 0]
      ELSE IF wider
      THEN ScaleToHeight(originalWidth, originalHeight, targetWidth, targetHeight, tieDown)
      ELSE ScaleToWidth(originalWidth, originalHeight, targetWidth, targetHeight, tieDown)

\* fault variant: stretch keeps the aspect ratio, as fit does
calculateTargetDimensionsStretchAsFit(originalWidth, originalHeight, targetWidth, targetHeight, mode, tieDown) ==
  LET wider == originalWidth * targetHeight > targetWidth * originalHeight
  IN  IF (mode \in {"fit", "stretch"}) = wider
      THEN ScaleToWidth(originalWidth, originalHeight, targetWidth, targetHeight, tieDown)
      ELSE ScaleToHeight(originalWidth, originalHeight, targetWidth, targetHeight, tieDown)

\* fault variant: a source whose ratio equals the target's is not scaled
calculateTargetDimensionsNoTie(originalWidth, originalHeight, targetWidth, targetHeight, mode, tieDown) ==
  IF mode # "stretch" /\ originalWidth * targetHeight = targetWidth * originalHeight
  THEN [width |-> originalWidth, height |-> originalHeight,
        offsetX |-> RoundHalf(targetWidth - originalWidth),
        offsetY |-> RoundHalf(targetHeight - originalHeight)]
  ELSE IF mode = "fit" /\ originalWidth * targetHeight > targetWidth * originalHeight
  THEN ScaleToWidth(originalWidth, originalHeight, targetWidth, targetHeight, tieDown)
  ELSE IF mode = "fit" \/ (mode = "fill" /\ originalWidth * targetHeight > targetWidth * originalHeight)
  THEN ScaleToHeight(originalWidth, originalHeight, targetWidth, targetHeight, tieDown)
  ELSE IF mode = "fill"
  THEN ScaleToWidth(originalWidth, originalHeight, targetWidth, targetHeight, tieDown)
  ELSE [width |-> targetWidth, height |-> targetHeight, offsetX |-> 0, offsetY |-> 0]

\* imageProcessor.calculateTargetDimensions; wider is originalRatio > targetRatio
calculateTargetDimensions(originalWidth, originalHeight, targetWidth, targetHeight, mode, tieDown) ==
  LET wider == originalWidth * targetHeight > targetWidth * originalHeight
  IN  IF mode = "stretch"
      THEN [width |-> targetWidth, height |-> targetHeight, offsetX |-> 0, offsetY |-> 0]
      ELSE IF mode = "fit"
      THEN IF wider
           THEN ScaleToWidth(originalWidth, originalHeight, targetWidth, targetHeight, tieDown)
           ELSE ScaleToHeight(originalWidth, originalHeight, targetWidth, targetHeight, tieDown)
      ELSE IF mode = "fill"
      THEN IF wider
           THEN ScaleToHeight(originalWidth, originalHeight, targetWidth, targetHeight, tieDown)
           ELSE ScaleToWidth(originalWidth, originalHeight, targetWidth, targetHeight, tieDown)
      ELSE [width |-> targetWidth, height |-> targetHeight, offsetX |-> 0, offsetY |-> 0]

\* fault variant: the crop origin of fill is the signed offset
resizeDrawSigned(calc, width, height, mode) ==
  IF mode = "fill"
  THEN [ src |-> [x |-> Whole(calc.offsetX), y |-> Whole(calc.offsetY),
                  w |-> Whole(width), h |-> Whole(height)],
         dst |-> [x |-> Whole(0), y |-> Whole(0), w |-> Whole(width), h |-> Whole(height)] ]
  ELSE [ src |-> [x |-> Whole(0), y |-> Whole(0),
                  w |-> Whole(calc.width), h |-> Whole(calc.height)],
         dst |-> [x |-> Whole(calc.offsetX), y |-> Whole(calc.offsetY),
                  w |-> Whole(calc.width), h |-> Whole(calc.height)] ]

\* the final drawImage of resizeImage: the rectangle read from the resized
\* canvas (calc.width x calc.height) and the one written on the target canvas
resizeDraw(calc, width, height, mode) ==
  IF mode = "fill"
  THEN [ src |-> [x |-> Whole(Abs(calc.offsetX)), y |-> Whole(Abs(calc.offsetY)),
                  w |-> Whole(width), h |-> Whole(height)],
         dst |-> [x |-> Whole(0), y |-> Whole(0), w |-> Whole(width), h |-> Whole(height)] ]
  ELSE [ src |-> [x |-> Whole(0), y |-> Whole(0),
                  w |-> Whole(calc.width), h |-> Whole(calc.height)],
         dst |-> [x |-> Whole(calc.offsetX), y |-> Whole(calc.offsetY),
                  w |-> Whole(calc.width), h |-> Whole(calc.height)] ]

\* fault variant: the watermark is always scaled to the largest allowed size
tryCompositeAlwaysScale(baseW, baseH, wmW, wmH, scale) ==
  LET maxW == Times(Whole(baseW), scale)
      maxH == Times(Whole(baseH), scale)
      rW == << maxW[1], maxW[2] * wmW >>
      rH == << maxH[1], maxH[2] * wmH >>
      scaleRatio == IF Leq(rW, rH) THEN rW ELSE rH
      w == Times(Whole(wmW), scaleRatio)
      h == Times(Whole(wmH), scaleRatio)
  IN  [ src |-> [x |-> Whole(0), y |-> Whole(0), w |-> Whole(wmW), h |-> Whole(wmH)],
        dst |-> [x |-> Halve(Minus(Whole(baseW), w)), y |-> Halve(Minus(Whole(baseH), h)),
                 w |-> w, h |-> h] ]

\* tryComposite of addWatermark: the drawImage of the watermark
tryComposite(baseW, baseH, wmW, wmH, scale) ==
  LET maxW == Times(Whole(baseW), scale)
      maxH == Times(Whole(baseH), scale)
      rW == << maxW[1], maxW[2] * wmW >>          \* maxWatermarkWidth / watermarkWidth
      rH == << maxH[1], maxH[2] * wmH >>
      scaleRatio == IF ~Leq(Whole(wmW), maxW) \/ ~Leq(Whole(wmH), maxH)
                    THEN (IF Leq(rW, rH) THEN rW ELSE rH)
                    ELSE Whole(1)
      w == Times(Whole(wmW), scaleRatio)
      h == Times(Whole(wmH), scaleRatio)
  IN  [ src |-> [x |-> Whole(0), y |-> Whole(0), w |-> Whole(wmW), h |-> Whole(wmH)],
        dst |-> [x |-> Halve(Minus(Whole(baseW), w)), y |-> Halve(Minus(Whole(baseH), h)),
                 w |-> w, h |-> h] ]

\* -------------------------------------------------------------------- init
Init ==
  /\ images = << >>
  /\ isModelLoading = FALSE
  /\ modelLoadError = "null"
  /\ globalWatermark = NoWatermark
  /\ isInitialized = FALSE
  /\ isLoading = FALSE
  /\ photoroomReady \in BOOLEAN
  /\ apiKey = IF photoroomReady THEN "apiKey" ELSE ""
  /\ sandboxKey = FALSE
  /\ currentKey = apiKey
  /\ usingSandbox = FALSE
  /\ canvas = NoCanvas
  /\ downloads = [e \in DownloadIds |-> NoDownload]
  /\ legacy = [c \in LegacyIds |-> NoLegacy]
  /\ nextId = 0
  /\ warmup = IdleWarmup
  /\ runs = [r \in RunIds |-> NoRun]

Quiet == warmup.pc = "idle"      \* no microtask is pending

\* ------------------------------------------------------------- the store
\* fault variant: never dispatch at upload time
NeverLoaded == FALSE

\* aiService.isModelLoaded() in the else-if of addImages
isModelLoaded == isInitialized

\* aiService.loadModel: runs to completion inside the call (its async body
\* has no await).  ok = the try block completed; otherwise the catch block
\* resets isInitialized and the returned promise is rejected.
loadModel(ok) ==
  /\ isInitialized' = ok
  /\ isLoading' = FALSE

addImages(files) ==
  /\ Quiet
  /\ nextId + Len(files) <= MaxJobs
  /\ LET newIds == [i \in 1..Len(files) |-> nextId + i]
         newImages == [i \in 1..Len(files) |-> NewImage(nextId + i, files[i])]
         appended == images \o newImages
     IN  /\ nextId' = nextId + Len(files)
         /\ IF Len(appended) = Len(newImages) /\ ~isInitialized /\ ~isLoading
            THEN \* first upload: initializeModel() up to its await
                 /\ Cardinality(FreeRuns(runs)) >= Len(files)
                 /\ images' = appended
                 /\ isModelLoading' = TRUE
                 /\ modelLoadError' = "null"
                 /\ \E ok \in BOOLEAN :
                      /\ loadModel(ok)
                      /\ warmup' = [pc |-> "loading", newIds |-> newIds,
                                    failed |-> ~ok, rejected |-> FALSE]
                 /\ UNCHANGED << globalWatermark, photoroomReady, serviceVars, canvas, downloads, legacy, runs >>
            ELSE IF isModelLoaded
            THEN \* model already loaded: start processing immediately
                 /\ Cardinality(FreeRuns(runs)) >= Len(files)
                 /\ LET st == processEach([images |-> appended, runs |-> runs], newIds)
                    IN  /\ images' = st.images
                        /\ runs' = st.runs
                 /\ UNCHANGED << isModelLoading, modelLoadError, globalWatermark,
                                 isInitialized, isLoading, photoroomReady, serviceVars, canvas, downloads, legacy, warmup >>
            ELSE /\ images' = appended
                 /\ UNCHANGED << isModelLoading, modelLoadError, globalWatermark,
                                 isInitialized, isLoading, photoroomReady, serviceVars, canvas, downloads, legacy, warmup, runs >>

\* initializeModel after its await: the try or the catch branch; either way
\* the promise initializeModel returned is fulfilled
initializeModel ==
  /\ warmup.pc = "loading"
  /\ isModelLoading' = FALSE
  /\ modelLoadError' = IF warmup.failed THEN ErrLoad ELSE modelLoadError
  /\ warmup' = [warmup EXCEPT !.pc = "settled", !.rejected = FALSE]
  /\ UNCHANGED << images, globalWatermark, isInitialized, isLoading, photoroomReady, serviceVars, canvas, downloads, legacy,
                  nextId, runs >>

\* the .then / .catch callbacks of addImages
addImagesThen ==
  /\ warmup.pc = "settled"
  /\ IF warmup.rejected
     THEN /\ images' = [ i \in 1..Len(images) |->
                          IF \E k \in 1..Len(warmup.newIds) : warmup.newIds[k] = images[i].id
                          THEN [status |-> "error", errorMessage |-> "Model yuklenemedi"]
                                 @@ images[i]
                          ELSE images[i] ]
          /\ runs' = runs
     ELSE LET st == processEach([images |-> images, runs |-> runs], warmup.newIds)
          IN  /\ images' = st.images
              /\ runs' = st.runs
  /\ warmup' = IdleWarmup
  /\ UNCHANGED << isModelLoading, modelLoadError, globalWatermark, isInitialized,
                  isLoading, photoroomReady, serviceVars, canvas, downloads, legacy, nextId >>

removeImage(id) ==
  /\ Quiet
  /\ images' = SelectSeq(images, LAMBDA img : img.id # id)
  /\ UNCHANGED << isModelLoading, modelLoadError, globalWatermark, isInitialized,
                  isLoading, photoroomReady, serviceVars, canvas, downloads, legacy, nextId, warmup, runs >>

clearAll ==
  /\ Quiet
  /\ images' = << >>
  /\ UNCHANGED << isModelLoading, modelLoadError, globalWatermark, isInitialized,
                  isLoading, photoroomReady, serviceVars, canvas, downloads, legacy, nextId, warmup, runs >>

\* resizeMode ?? img.resizeMode ?? 'fit'
Coalesce(arg, old, dflt) == IF arg # "undef" THEN arg ELSE IF old # "undef" THEN old ELSE dflt

\* fault variant: a dimension edit that also sends the job back to processing
DimensionPatchReprocess(img, w, h, mode, lock) ==
  [ dimensions |-> <<w, h>>,
    resizeMode |-> Coalesce(mode, img.resizeMode, "fit"),
    maintainAspectRatio |-> Coalesce(lock, img.maintainAspectRatio, "true"),
    status |-> "processing", imglyBlob |-> NullBlob, photoroomBlob |-> NullBlob ]

\* the fields updateImageDimensions / updateBulkDimensions write
DimensionPatch(img, w, h, mode, lock) ==
  [ dimensions |-> <<w, h>>,
    resizeMode |-> Coalesce(mode, img.resizeMode, "fit"),
    maintainAspectRatio |-> Coalesce(lock, img.maintainAspectRatio, "true") ]

updateImageDimensions(id, w, h, mode, lock) ==
  /\ Quiet
  /\ images' = [ i \in 1..Len(images) |->
                  IF images[i].id = id
                  THEN DimensionPatch(images[i], w, h, mode, lock) @@ images[i]
                  ELSE images[i] ]
  /\ UNCHANGED << isModelLoading, modelLoadError, globalWatermark, isInitialized,
                  isLoading, photoroomReady, serviceVars, canvas, downloads, legacy, nextId, warmup, runs >>

updateBulkDimensions(w, h, mode, lock) ==
  /\ Quiet
  /\ images' = [ i \in 1..Len(images) |->
                  DimensionPatch(images[i], w, h, mode, lock) @@ images[i] ]
  /\ UNCHANGED << isModelLoading, modelLoadError, globalWatermark, isInitialized,
                  isLoading, photoroomReady, serviceVars, canvas, downloads, legacy, nextId, warmup, runs >>

\* fault variant: a rename that also sends the job back through reprocessImage
updateImageNameRerun(id, newName) ==
  /\ Quiet
  /\ Cardinality(FreeRuns(runs)) >= 1
  /\ LET st == reprocessImageStart(
                 [images |-> SetImage(images, id, [newName |-> newName]),
                  runs |-> runs], id)
     IN  /\ images' = st.images
         /\ runs' = st.runs
  /\ UNCHANGED << isModelLoading, modelLoadError, globalWatermark, isInitialized,
                  isLoading, photoroomReady, serviceVars, canvas, downloads, legacy, nextId, warmup >>

updateImageName(id, newName) ==
  /\ Quiet
  /\ images' = SetImage(images, id, [newName |-> newName])
  /\ UNCHANGED << isModelLoading, modelLoadError, globalWatermark, isInitialized,
                  isLoading, photoroomReady, serviceVars, canvas, downloads, legacy, nextId, warmup, runs >>

\* fault variant: every job gets the base name itself
BulkNameNoIndex(baseName, index) == baseName

\* `${baseName}_${index + 1}` for the job at position index (counted from 1)
BulkName(baseName, index) == baseName \o <<"_", ToString(index)>>

\* BulkActions.handleBulkRename: updateImageName for every job of the list,
\* in list order, with the position in the list as suffix
handleBulkRename(baseName) ==
  /\ Quiet
  /\ images # << >>
  /\ images' = [ i \in 1..Len(images) |->
                  [images[i] EXCEPT !.newName = BulkName(baseName, i)] ]
  /\ UNCHANGED << isModelLoading, modelLoadError, globalWatermark, isInitialized,
                  isLoading, photoroomReady, serviceVars, canvas, downloads, legacy, nextId, warmup, runs >>

updateImageWatermark(id, watermark) ==
  /\ Quiet
  /\ Cardinality(FreeRuns(runs)) >= 1
  /\ LET st == reprocessImageStart(
                 [images |-> SetImage(images, id, [watermark |-> watermark]),
                  runs |-> runs], id)
     IN  /\ images' = st.images
         /\ runs' = st.runs
  /\ UNCHANGED << isModelLoading, modelLoadError, globalWatermark, isInitialized,
                  isLoading, photoroomReady, serviceVars, canvas, downloads, legacy, nextId, warmup >>

setGlobalWatermark(watermark) ==
  /\ Quiet
  /\ globalWatermark' = watermark
  /\ UNCHANGED << images, isModelLoading, modelLoadError, isInitialized, isLoading,
                  photoroomReady, serviceVars, canvas, downloads, legacy, nextId, warmup, runs >>

applyWatermarkToAll ==
  /\ Quiet
  /\ IF globalWatermark = NoWatermark
     THEN UNCHANGED << images, runs >>
     ELSE /\ Cardinality(FreeRuns(runs)) >= Len(images)
          /\ LET marked == [ i \in 1..Len(images) |->
                              [watermark |-> globalWatermark] @@ images[i] ]
                 st == reprocessEach([images |-> marked, runs |-> runs], IdSeq(marked))
             IN  /\ images' = st.images
                 /\ runs' = st.runs
  /\ UNCHANGED << isModelLoading, modelLoadError, globalWatermark, isInitialized,
                  isLoading, photoroomReady, serviceVars, canvas, downloads, legacy, nextId, warmup >>

\* ---------------------------------------------------- a run after its start
RunVarsUnchanged ==
  UNCHANGED << isModelLoading, modelLoadError, globalWatermark, isInitialized,
               isLoading, photoroomReady, serviceVars, canvas, downloads, legacy, nextId, warmup >>

\* fault variant: a catch block that only logs the error
RunFailedLogOnly(imgs, run, message) ==
  [ images |-> imgs, run |-> EndedRun(run) ]

\* fault variant: a failed run drops its job from the collection
RunFailedEvicts(imgs, run, message) ==
  [ images |-> SelectSeq(imgs, LAMBDA img : img.id # run.id),
    run |-> EndedRun(run) ]

\* the catch block of processImage / reprocessImage
RunFailed(imgs, run, message) ==
  [ images |-> SetImage(imgs, run.id, [status |-> "error", errorMessage |-> message]),
    run |-> EndedRun(run) ]

\* the code after the last applyWhiteBackground: progress 70, the results,
\* done.  processImage clears the stage tag, reprocessImage does not.
RunStored(imgs, run, imglyWithBg, photoroomWithBg) ==
  LET i1 == SetImage(imgs, run.id, [imglyProgress |-> 70, photoroomProgress |-> 70])
      i2 == IF run.kind = "process"
            THEN SetImage(
                   SetImage(i1, run.id,
                     [processingStage |-> "finalizing", imglyBlob |-> imglyWithBg,
                      photoroomBlob |-> photoroomWithBg, imglyProgress |-> 90,
                      photoroomProgress |-> 90]),
                   run.id,
                   [status |-> "done", imglyProgress |-> 100, photoroomProgress |-> 100,
                    processingStage |-> "undef"])
            ELSE SetImage(i1, run.id,
                   [processingStage |-> "finalizing", imglyBlob |-> imglyWithBg,
                    photoroomBlob |-> photoroomWithBg, status |-> "done",
                    imglyProgress |-> 100, photoroomProgress |-> 100])
  IN  [ images |-> i2, run |-> EndedRun(run) ]

\* fault variant: a fail-fast join (Promise.all): one rejection rejects the call
removeBackgroundDualFailFast(imgs, run) ==
  IF run.imgly = "fail" \/ run.photoroom = "fail"
  THEN RunFailed(imgs, run, "provider failed")
  ELSE [ images |-> SetImage(imgs, run.id,
                      [processingStage |-> "applying-bg", imglyProgress |-> 50,
                       photoroomProgress |-> 50]),
         run |-> [run EXCEPT !.pc = "bgI"] ]

\* the DualProcessingResult removeBackgroundDual resolves with, from the two
\* settled promises: a blob for a fulfilled call, an error message otherwise
DualResult(run) ==
  [ imglyBlob |-> IF run.imgly = "ok" THEN "blob" ELSE "null",
    imglyError |-> IF run.imgly = "ok" THEN "undef" ELSE "imgly processing failed",
    photoroomBlob |-> IF run.photoroom = "ok" THEN "blob" ELSE "null",
    photoroomError |-> IF run.photoroom = "ok" THEN "undef"
                       ELSE "Photoroom processing failed" ]

\* fault variant: compositing is started for the imgly image whether or not
\* its removal succeeded
removeBackgroundDualSettledCompositeAll(imgs, run) ==
  [ images |-> SetImage(imgs, run.id,
                 [processingStage |-> "applying-bg", imglyProgress |-> 50,
                  photoroomProgress |-> 50]),
    run |-> [run EXCEPT !.pc = "bgI"] ]

\* Promise.allSettled of removeBackgroundDual has resolved: the dual result
\* holds a blob exactly for the fulfilled providers; the run goes on to the
\* applying-bg stage and awaits the first applyWhiteBackground it needs
removeBackgroundDualSettled(imgs, run) ==
  LET dualResult == DualResult(run)
      i1 == SetImage(imgs, run.id,
              [processingStage |-> "applying-bg", imglyProgress |-> 50,
               photoroomProgress |-> 50])
  IN  IF dualResult.imglyBlob # "null"
      THEN [images |-> i1, run |-> [run EXCEPT !.pc = "bgI"]]
      ELSE IF dualResult.photoroomBlob # "null"
      THEN [images |-> i1, run |-> [run EXCEPT !.pc = "bgP"]]
      ELSE RunStored(i1, run, NullBlob, NullBlob)

\* fault variant: the join resolves as soon as one provider call has settled
ProviderSettledEager(imgs, run) ==
  IF run.imgly # "pending" \/ run.photoroom # "pending"
  THEN removeBackgroundDualSettled(imgs, run)
  ELSE [images |-> imgs, run |-> run]

\* one provider call of removeBackgroundDual has settled
ProviderSettled(imgs, run) ==
  IF run.imgly # "pending" /\ run.photoroom # "pending"
  THEN removeBackgroundDualSettled(imgs, run)
  ELSE [images |-> imgs, run |-> run]

\* fault variant: a failed dimension read that is ignored, the run going on
\* to the provider calls
getImageDimensionsIgnoreFailure(r, ok) ==
  /\ Quiet
  /\ runs[r].pc = "dims"
  /\ images' = IF ok
               THEN SetImage(images, runs[r].id,
                      [dimensions |-> << Files[runs[r].file].width,
                                         Files[runs[r].file].height >>,
                       imglyProgress |-> 10, photoroomProgress |-> 10])
               ELSE images
  /\ runs' = [runs EXCEPT ![r] = DualStarted(runs[r])]
  /\ RunVarsUnchanged

\* imageProcessor.getImageDimensions has resolved or rejected
getImageDimensionsSettle(r, ok) ==
  /\ Quiet
  /\ runs[r].pc = "dims"
  /\ IF ok
     THEN /\ images' = SetImage(images, runs[r].id,
                         [dimensions |-> << Files[runs[r].file].width,
                                            Files[runs[r].file].height >>,
                          imglyProgress |-> 10, photoroomProgress |-> 10])
          /\ runs' = [runs EXCEPT ![r] = DualStarted(runs[r])]
     ELSE LET st == RunFailed(images, runs[r], ErrDims)
          IN  /\ images' = st.images
              /\ runs' = [runs EXCEPT ![r] = st.run]
  /\ RunVarsUnchanged

\* the progress callback of the imgly call, percentages never decreasing
onImglyProgress(r, percentage) ==
  /\ Quiet
  /\ runs[r].pc = "dual"
  /\ runs[r].imgly = "pending"
  /\ percentage >= runs[r].reported
  /\ images' = SetImage(images, runs[r].id,
                 [imglyProgress |-> 10 + Round04(percentage)])
  /\ runs' = [runs EXCEPT ![r].reported = percentage]
  /\ RunVarsUnchanged

\* backgroundRemoval.removeBackground has resolved or rejected
imglySettle(r, ok) ==
  /\ Quiet
  /\ runs[r].pc = "dual"
  /\ runs[r].imgly = "pending"
  /\ LET st == ProviderSettled(images,
                 [runs[r] EXCEPT !.imgly = IF ok THEN "ok" ELSE "fail"])
     IN  /\ images' = st.images
         /\ runs' = [runs EXCEPT ![r] = st.run]
  /\ RunVarsUnchanged

\* the Photoroom branch of removeBackgroundDual after the call returned:
\* on success it reports progress 100 before it returns the blob
photoroomReturned(imgs, run, ok) ==
  LET i1 == IF ok
            THEN SetImage(imgs, run.id, [photoroomProgress |-> 10 + Round04(100)])
            ELSE imgs
  IN  ProviderSettled(i1,
        [run EXCEPT !.photoroom = IF ok THEN "ok" ELSE "fail",
                    !.http = "none", !.status = 0])

\* photoroomService.removeBackground has returned
photoroomSettle(r, ok) ==
  /\ Quiet
  /\ runs[r].pc = "dual"
  /\ runs[r].photoroom = "pending"
  /\ LET st == photoroomReturned(images, runs[r], ok)
     IN  /\ images' = st.images
         /\ runs' = [runs EXCEPT ![r] = st.run]
  /\ RunVarsUnchanged

\* photoroomService.configure({ apiKey: key }): the method assigns apiKey
\* and isConfigured (and the endpoint) and leaves currentKey as it was
configure(key) ==
  /\ Quiet
  /\ apiKey' = key
  /\ photoroomReady' = (key # "")
  /\ UNCHANGED << images, isModelLoading, modelLoadError, globalWatermark,
                  isInitialized, isLoading, sandboxKey, currentKey, usingSandbox, canvas,
                  downloads, legacy, nextId, warmup, runs >>

\* ------------------------------------------- the HTTP exchange of a call
\* fault variant: a rate-limit answer also switches to the sandbox key
FallbackOnRateLimit(status) ==
  status \in {402, 429} /\ ~usingSandbox /\ sandboxKey

\* response.status === 402 with !this.usingSandbox && this.sandboxKey
Fallback(status) ==
  status = 402 /\ ~usingSandbox /\ sandboxKey

\* fetch has resolved with a response: a response that is not ok has its
\* body read as text, an ok response as a blob
fetchSettle(r, status) ==
  /\ Quiet
  /\ runs[r].pc = "dual"
  /\ runs[r].http = "fetch"
  /\ runs' = [runs EXCEPT ![r].http = IF status \in 200..299 THEN "blob" ELSE "text",
                          ![r].status = status]
  /\ images' = images
  /\ RunVarsUnchanged

\* fetch has rejected (network error): the catch block returns a failure
fetchFail(r) ==
  /\ Quiet
  /\ runs[r].pc = "dual"
  /\ runs[r].http = "fetch"
  /\ LET st == photoroomReturned(images, runs[r], FALSE)
     IN  /\ images' = st.images
         /\ runs' = [runs EXCEPT ![r] = st.run]
  /\ RunVarsUnchanged

\* response.text() has settled: on a quota answer the client switches to
\* the sandbox key, once, and calls removeBackground again; every other
\* answer, and a body that cannot be read, returns a failure
textSettle(r, ok) ==
  /\ Quiet
  /\ runs[r].pc = "dual"
  /\ runs[r].http = "text"
  /\ IF ok /\ Fallback(runs[r].status)
     THEN /\ currentKey' = "sandboxKey"
          /\ usingSandbox' = TRUE
          /\ runs' = [runs EXCEPT ![r] =
                        [runs[r] EXCEPT !.http = "fetch", !.status = 0,
                                        !.key = "sandboxKey", !.requests = @ + 1]]
          /\ UNCHANGED << images, apiKey, sandboxKey >>
     ELSE /\ LET st == photoroomReturned(images, runs[r], FALSE)
             IN  /\ images' = st.images
                 /\ runs' = [runs EXCEPT ![r] = st.run]
          /\ UNCHANGED serviceVars
  /\ UNCHANGED << isModelLoading, modelLoadError, globalWatermark, isInitialized,
                  isLoading, photoroomReady, canvas, downloads, legacy, nextId, warmup >>

\* response.blob() has settled: the call returns the blob, or a failure
\* from the catch block
blobSettle(r, ok) ==
  /\ Quiet
  /\ runs[r].pc = "dual"
  /\ runs[r].http = "blob"
  /\ LET st == photoroomReturned(images, runs[r], ok)
     IN  /\ images' = st.images
         /\ runs' = [runs EXCEPT ![r] = st.run]
  /\ RunVarsUnchanged

\* applyWhiteBackground(dualResult.imglyBlob) has resolved or rejected
imglyBackgroundSettle(r, ok) ==
  /\ Quiet
  /\ runs[r].pc = "bgI"
  /\ LET imglyWithBg == applyWhiteBackground(RemovedBlob(r, "imgly"))
         st == IF ~ok THEN RunFailed(images, runs[r], ErrComposite)
               ELSE IF runs[r].photoroom = "ok"
               THEN [images |-> images,
                     run |-> [runs[r] EXCEPT !.pc = "bgP", !.imglyWithBg = imglyWithBg]]
               ELSE RunStored(images, runs[r], imglyWithBg, NullBlob)
     IN  /\ images' = st.images
         /\ runs' = [runs EXCEPT ![r] = st.run]
  /\ RunVarsUnchanged

\* applyWhiteBackground(dualResult.photoroomBlob) has resolved or rejected
photoroomBackgroundSettle(r, ok) ==
  /\ Quiet
  /\ runs[r].pc = "bgP"
  /\ LET photoroomWithBg == applyWhiteBackground(RemovedBlob(r, "photoroom"))
         st == IF ~ok THEN RunFailed(images, runs[r], ErrComposite)
               ELSE RunStored(images, runs[r], runs[r].imglyWithBg, photoroomWithBg)
     IN  /\ images' = st.images
         /\ runs' = [runs EXCEPT ![r] = st.run]
  /\ RunVarsUnchanged

\* ------------------------------------------------------------------ export
\* invocations are numbered in the order they start
FreeDownload(e) ==
  /\ downloads[e].pc = "idle"
  /\ \A f \in DownloadIds : f < e => downloads[f].pc # "idle"

\* BulkActions: the jobs the component rendered as done
doneImages == SelectSeq(images, LAMBDA img : img.status = "done")
canDownload == Len(doneImages) > 0

\* the resizeImage calls one pass of the loop of handleDownloadAll makes
ImageCalls(image, provider) ==
  LET imgly == IF image.imglyBlob # NullBlob THEN << <<image.id, "imgly">> >> ELSE << >>
      photoroom == IF image.photoroomBlob # NullBlob
                   THEN << <<image.id, "photoroom">> >> ELSE << >>
  IN  IF provider = "imgly" THEN imgly
      ELSE IF provider = "photoroom" THEN photoroom
      ELSE imgly \o photoroom

RECURSIVE ResizeCalls(_, _)
ResizeCalls(imgs, provider) ==
  IF imgs = << >> THEN << >>
  ELSE ImageCalls(Head(imgs), provider) \o ResizeCalls(Tail(imgs), provider)

\* fault variant: a failed resize marks the job as failed
ResizeFailedMarksError(imgs, id) ==
  SetImage(imgs, id, [status |-> "error", errorMessage |-> "resize failed"])

\* the catch block of the loop of handleDownloadAll: the error is logged and
\* the loop goes on with the next image; the store is not written
ResizeFailed(imgs, id) == imgs

\* the state of a handler invocation after a resizeImage call of it settled
\* and the handler ran on to its next await or to its end
AfterResize(d, ok) ==
  LET head == d.queue[1]
      rest == Tail(d.queue)
  IN  IF d.handler = "single"
      THEN \* saveAs of the resized blob, or in the catch block of the original
           [NoDownload EXCEPT !.last = IF ok THEN "saved" ELSE "fallback"]
      ELSE LET queue == IF ok THEN rest
                        ELSE SelectSeq(rest, LAMBDA c : c[1] # head[1])
               fileCount == IF ok THEN d.fileCount + 1 ELSE d.fileCount
               errors == IF ok THEN d.errors ELSE d.errors + 1
           IN  IF queue # << >>
               THEN [d EXCEPT !.queue = queue, !.fileCount = fileCount,
                              !.errors = errors]
               ELSE IF fileCount = 0
               THEN [NoDownload EXCEPT !.last = "empty"]
               ELSE [d EXCEPT !.pc = "archive", !.queue = queue,
                              !.fileCount = fileCount, !.errors = errors]

\* BulkActions.handleDownloadAll up to its first await
handleDownloadAll(e, provider) ==
  /\ Quiet
  /\ FreeDownload(e)
  /\ canDownload
  /\ LET queue == ResizeCalls(doneImages, provider)
     IN  downloads' = [downloads EXCEPT ![e] =
           IF queue = << >>
           THEN [NoDownload EXCEPT !.last = "empty"]
           ELSE [@ EXCEPT !.pc = "resize", !.handler = "all", !.queue = queue,
                          !.fileCount = 0]]
  /\ UNCHANGED << images, isModelLoading, modelLoadError, globalWatermark,
                  isInitialized, isLoading, photoroomReady, serviceVars, canvas,
                  legacy, nextId, warmup, runs >>

\* ComparisonView.handleDownloadImgly for the selected image, up to its await
handleDownloadImgly(e, id) ==
  /\ Quiet
  /\ FreeDownload(e)
  /\ id \in Ids(images)
  /\ Find(images, id).imglyBlob # NullBlob
  /\ downloads' = [downloads EXCEPT ![e] =
       [@ EXCEPT !.pc = "resize", !.handler = "single",
                 !.queue = << <<id, "imgly">> >>, !.fileCount = 0]]
  /\ UNCHANGED << images, isModelLoading, modelLoadError, globalWatermark,
                  isInitialized, isLoading, photoroomReady, serviceVars, canvas,
                  legacy, nextId, warmup, runs >>

\* ComparisonView.handleDownloadPhotoroom for the selected image
handleDownloadPhotoroom(e, id) ==
  /\ Quiet
  /\ FreeDownload(e)
  /\ id \in Ids(images)
  /\ Find(images, id).photoroomBlob # NullBlob
  /\ downloads' = [downloads EXCEPT ![e] =
       [@ EXCEPT !.pc = "resize", !.handler = "single",
                 !.queue = << <<id, "photoroom">> >>, !.fileCount = 0]]
  /\ UNCHANGED << images, isModelLoading, modelLoadError, globalWatermark,
                  isInitialized, isLoading, photoroomReady, serviceVars, canvas,
                  legacy, nextId, warmup, runs >>

\* the imageProcessor.resizeImage call a handler awaits has settled
resizeSettle(e, ok) ==
  /\ Quiet
  /\ downloads[e].pc = "resize"
  /\ downloads' = [downloads EXCEPT ![e] = AfterResize(@, ok)]
  /\ images' = IF ok THEN images
               ELSE ResizeFailed(images, downloads[e].queue[1][1])
  /\ UNCHANGED << isModelLoading, modelLoadError, globalWatermark,
                  isInitialized, isLoading, photoroomReady, serviceVars, canvas,
                  legacy, nextId, warmup, runs >>

\* zip.generateAsync has settled: saveAs of the archive, or the rejection
\* leaves handleDownloadAll
generateAsyncSettle(e, ok) ==
  /\ Quiet
  /\ downloads[e].pc = "archive"
  /\ downloads' = [downloads EXCEPT ![e] =
       [NoDownload EXCEPT !.last = IF ok THEN "saved" ELSE "archive-failed"]]
  /\ UNCHANGED << images, isModelLoading, modelLoadError, globalWatermark,
                  isInitialized, isLoading, photoroomReady, serviceVars, canvas,
                  legacy, nextId, warmup, runs >>

\* ------------------------------------------- single-result removeBackground
\* invocations are numbered in the order they start
FreeLegacy(c) ==
  /\ legacy[c].pc = "idle"
  /\ \A d \in LegacyIds : d < c => legacy[d].pc # "idle"

\* aiService.removeBackground up to its first await: the Photoroom client is
\* called when it is ready, the imgly library otherwise
LegacyStarted(call) ==
  IF photoroomReady
  THEN [call EXCEPT !.pc = "remote", !.remote = "pending", !.remoteCalls = @ + 1]
  ELSE [call EXCEPT !.pc = "local", !.localCalls = @ + 1]

\* fault variant: an unsuccessful answer of the client ends the invocation
LegacyAfterRemoteNoFallback(call, outcome) ==
  IF outcome = "ok"
  THEN [call EXCEPT !.pc = "returned", !.remote = outcome, !.result = "photoroom"]
  ELSE [call EXCEPT !.pc = "rejected", !.remote = outcome, !.result = "error"]

\* the client has answered: its blob is returned, or imgly is called
LegacyAfterRemote(call, outcome) ==
  IF outcome = "ok"
  THEN [call EXCEPT !.pc = "returned", !.remote = outcome, !.result = "photoroom"]
  ELSE [call EXCEPT !.pc = "local", !.remote = outcome, !.localCalls = @ + 1]

\* the imgly call has settled: its blob is returned; a rejection inside the
\* try block is caught and imgly is called once more, and a rejection of
\* that call rejects the invocation
LegacyAfterLocal(call, ok) ==
  IF ok THEN [call EXCEPT !.pc = "returned", !.result = "imgly"]
  ELSE IF call.pc = "local" THEN [call EXCEPT !.pc = "retry", !.localCalls = @ + 1]
  ELSE [call EXCEPT !.pc = "rejected", !.result = "error"]

LegacyVarsUnchanged ==
  UNCHANGED << images, isModelLoading, modelLoadError, globalWatermark,
               isInitialized, isLoading, photoroomReady, serviceVars, canvas,
               downloads, nextId, warmup, runs >>

\* aiService.removeBackground(imageFile) is invoked
legacyRemoveBackground(c) ==
  /\ Quiet
  /\ FreeLegacy(c)
  /\ legacy' = [legacy EXCEPT ![c] = LegacyStarted(@)]
  /\ LegacyVarsUnchanged

\* photoroomService.removeBackground has answered the invocation
legacyPhotoroomSettle(c, outcome) ==
  /\ Quiet
  /\ legacy[c].pc = "remote"
  /\ legacy' = [legacy EXCEPT ![c] = LegacyAfterRemote(@, outcome)]
  /\ LegacyVarsUnchanged

\* removeBackgroundWithImgly has settled
legacyImglySettle(c, ok) ==
  /\ Quiet
  /\ legacy[c].pc \in {"local", "retry"}
  /\ legacy' = [legacy EXCEPT ![c] = LegacyAfterLocal(@, ok)]
  /\ LegacyVarsUnchanged

\* ------------------------------------------------------------ specification
\* uploads, warm-up, removal
StoreStep ==
  \/ \E files \in Uploads : addImages(files)
  \/ initializeModel
  \/ addImagesThen
  \/ \E id \in JobIds : removeImage(id)
  \/ clearAll

\* watermark changes, which re-run jobs
WatermarkStep ==
  \/ \E id \in JobIds, w \in Watermarks \cup {NoWatermark} : updateImageWatermark(id, w)
  \/ \E w \in Watermarks \cup {NoWatermark} : setGlobalWatermark(w)
  \/ applyWatermarkToAll

\* dimension edits
DimensionStep ==
  \/ \E id \in JobIds, mode \in ModeArgs, lock \in LockArgs :
       updateImageDimensions(id, EditWidth, EditHeight, mode, lock)
  \/ \E mode \in ModeArgs, lock \in LockArgs :
       updateBulkDimensions(EditWidth, EditHeight, mode, lock)

RenameStep == \E id \in JobIds, name \in NewNames : updateImageName(id, name)

\* the awaited operations of the runs settle
RunStep ==
  \/ \E r \in RunIds, ok \in BOOLEAN : getImageDimensionsSettle(r, ok)
  \/ \E r \in RunIds, ok \in BOOLEAN : imglySettle(r, ok)
  \/ \E r \in RunIds, ok \in BOOLEAN : photoroomSettle(r, ok)
  \/ \E r \in RunIds, ok \in BOOLEAN : imglyBackgroundSettle(r, ok)
  \/ \E r \in RunIds, ok \in BOOLEAN : photoroomBackgroundSettle(r, ok)

ProgressStep == \E r \in RunIds, p \in ProgressReports : onImglyProgress(r, p)

\* the processing pipeline: uploads, watermark re-runs and the runs
Next == StoreStep \/ WatermarkStep \/ RunStep

Spec == Init /\ [][Next]_vars

\* every microtask runs, and while an awaited operation of some run has not
\* settled, one eventually settles (runs are finitely many, and a pending
\* operation stays pending until it settles: each one eventually settles)
Fairness ==
  /\ WF_vars(initializeModel)
  /\ WF_vars(addImagesThen)
  /\ WF_vars(RunStep)

\* the pipeline with single-file uploads and per-job re-runs, under fairness
LiveStore ==
  \/ addImages(<<1>>)
  \/ initializeModel
  \/ addImagesThen
  \/ \E id \in JobIds : removeImage(id)
  \/ clearAll

LiveRerun == \E id \in JobIds, w \in Watermarks : updateImageWatermark(id, w)

LiveNext == LiveStore \/ LiveRerun \/ RunStep

LiveSpec == Init /\ [][LiveNext]_vars /\ Fairness

\* single-file uploads and their runs, with dimension edits
EditNext == LiveStore \/ DimensionStep \/ RunStep

EditSpec == Init /\ [][EditNext]_vars

\* single-file uploads, per-job re-runs, runs and their progress callbacks
CallbackNext == LiveStore \/ LiveRerun \/ RunStep \/ ProgressStep

CallbackSpec == Init /\ [][CallbackNext]_vars

\* single-file uploads and their runs, with renames
RenameNext == LiveStore \/ RenameStep \/ RunStep

RenameSpec == Init /\ [][RenameNext]_vars

\* the client as constructed from any environment, uploads of one file, and
\* their runs with the HTTP exchange of the Photoroom calls
RemoteInit ==
  /\ images = << >>
  /\ isModelLoading = FALSE
  /\ modelLoadError = "null"
  /\ globalWatermark = NoWatermark
  /\ isInitialized = FALSE
  /\ isLoading = FALSE
  /\ photoroomReady \in BOOLEAN
  /\ apiKey = IF photoroomReady THEN "apiKey" ELSE ""
  /\ sandboxKey \in BOOLEAN
  /\ currentKey = apiKey
  /\ usingSandbox = FALSE
  /\ canvas = NoCanvas
  /\ downloads = [e \in DownloadIds |-> NoDownload]
  /\ legacy = [c \in LegacyIds |-> NoLegacy]
  /\ nextId = 0
  /\ warmup = IdleWarmup
  /\ runs = [r \in RunIds |-> NoRun]

RemoteStore ==
  \/ addImages(<<1>>)
  \/ initializeModel
  \/ addImagesThen

\* the awaited operations of the runs other than the Photoroom call
LocalStep ==
  \/ \E r \in RunIds, ok \in BOOLEAN : getImageDimensionsSettle(r, ok)
  \/ \E r \in RunIds, ok \in BOOLEAN : imglySettle(r, ok)
  \/ \E r \in RunIds, ok \in BOOLEAN : imglyBackgroundSettle(r, ok)
  \/ \E r \in RunIds, ok \in BOOLEAN : photoroomBackgroundSettle(r, ok)

HttpStep ==
  \/ \E r \in RunIds, status \in Statuses : fetchSettle(r, status)
  \/ \E r \in RunIds : fetchFail(r)
  \/ \E r \in RunIds, ok \in BOOLEAN : textSettle(r, ok)
  \/ \E r \in RunIds, ok \in BOOLEAN : blobSettle(r, ok)

RemoteNext == RemoteStore \/ LocalStep \/ HttpStep

RemoteFairness ==
  /\ WF_vars(initializeModel)
  /\ WF_vars(addImagesThen)
  /\ WF_vars(LocalStep)
  /\ WF_vars(HttpStep)

RemoteSpec == RemoteInit /\ [][RemoteNext]_vars /\ RemoteFairness

\* the export handlers and the operations they await
DownloadStep ==
  \/ \E e \in DownloadIds, provider \in Providers : handleDownloadAll(e, provider)
  \/ \E e \in DownloadIds, id \in JobIds : handleDownloadImgly(e, id)
  \/ \E e \in DownloadIds, id \in JobIds : handleDownloadPhotoroom(e, id)
  \/ \E e \in DownloadIds, ok \in BOOLEAN : resizeSettle(e, ok)
  \/ \E e \in DownloadIds, ok \in BOOLEAN : generateAsyncSettle(e, ok)

\* single-file uploads and their runs, with exports
DownloadNext == LiveStore \/ RunStep \/ DownloadStep

DownloadSpec == Init /\ [][DownloadNext]_vars

\* invocations of the single-result removeBackground, for a client that is
\* ready or not
LegacyNext ==
  \/ \E c \in LegacyIds : legacyRemoveBackground(c)
  \/ \E c \in LegacyIds, outcome \in RemoteOutcomes : legacyPhotoroomSettle(c, outcome)
  \/ \E c \in LegacyIds, ok \in BOOLEAN : legacyImglySettle(c, ok)

LegacySpec == Init /\ [][LegacyNext]_vars

\* the client, its runtime configuration, uploads and their runs with the
\* HTTP exchange
ConfigureStep == \E key \in ConfigKeys : configure(key)

ConfigureNext == RemoteStore \/ LocalStep \/ HttpStep \/ ConfigureStep

ConfigureSpec == RemoteInit /\ [][ConfigureNext]_vars

BulkRenameStep == \E baseName \in NewNames : handleBulkRename(baseName)

\* single-file and two-file uploads, removals, renames, bulk renames,
\* dimension edits and the runs
OrderStore ==
  \/ \E files \in Uploads : addImages(files)
  \/ initializeModel
  \/ addImagesThen
  \/ \E id \in JobIds : removeImage(id)
  \/ clearAll

OrderNext == OrderStore \/ RenameStep \/ BulkRenameStep \/ DimensionStep \/ RunStep

OrderSpec == Init /\ [][OrderNext]_vars

\* imageProcessor.resizeImage for the call in canvas
resizeImage(tieDown) ==
  /\ canvas.op = "resize"
  /\ canvas.pc = "input"
  /\ LET calc == calculateTargetDimensions(canvas.a[1], canvas.a[2], canvas.b[1],
                                           canvas.b[2], canvas.mode, tieDown)
         draw == resizeDraw(calc, canvas.b[1], canvas.b[2], canvas.mode)
     IN  canvas' = [canvas EXCEPT !.pc = "done", !.calc = calc, !.out = canvas.b,
                                  !.src = draw.src, !.dst = draw.dst]
  /\ UNCHANGED << images, isModelLoading, modelLoadError, globalWatermark,
                  isInitialized, isLoading, photoroomReady, serviceVars, downloads, legacy,
                  nextId, warmup, runs >>

\* imageProcessor.addWatermark for the call in canvas, both images loaded
addWatermarkComposite ==
  /\ canvas.op = "watermark"
  /\ canvas.pc = "input"
  /\ LET draw == tryComposite(canvas.a[1], canvas.a[2], canvas.b[1], canvas.b[2],
                              canvas.scale)
     IN  canvas' = [canvas EXCEPT !.pc = "done", !.out = canvas.a,
                                  !.src = draw.src, !.dst = draw.dst]
  /\ UNCHANGED << images, isModelLoading, modelLoadError, globalWatermark,
                  isInitialized, isLoading, photoroomReady, serviceVars, downloads, legacy,
                  nextId, warmup, runs >>

\* the arguments of one resizeImage or addWatermark call
GeometryInit ==
  /\ images = << >>
  /\ isModelLoading = FALSE
  /\ modelLoadError = "null"
  /\ globalWatermark = NoWatermark
  /\ isInitialized = FALSE
  /\ isLoading = FALSE
  /\ photoroomReady = FALSE
  /\ apiKey = ""
  /\ sandboxKey = FALSE
  /\ currentKey = apiKey
  /\ usingSandbox = FALSE
  /\ downloads = [e \in DownloadIds |-> NoDownload]
  /\ legacy = [c \in LegacyIds |-> NoLegacy]
  /\ nextId = 0
  /\ warmup = IdleWarmup
  /\ runs = [r \in RunIds |-> NoRun]
  /\ \/ \E ow \in Sides, oh \in Sides, tw \in Sides, th \in Sides, mode \in ResizeModes :
          canvas = [NoCanvas EXCEPT !.op = "resize", !.pc = "input", !.a = <<ow, oh>>,
                                    !.b = <<tw, th>>, !.mode = mode]
     \/ \E bw \in SmallSides, bh \in SmallSides, ww \in SmallSides, wh \in SmallSides,
           scale \in Scales :
          canvas = [NoCanvas EXCEPT !.op = "watermark", !.pc = "input", !.a = <<bw, bh>>,
                                    !.b = <<ww, wh>>, !.scale = scale]

GeometryNext ==
  \/ \E tieDown \in BOOLEAN : resizeImage(tieDown)
  \/ addWatermarkComposite

GeometrySpec == GeometryInit /\ [][GeometryNext]_vars

\* ------------------------------------------------------------------ claims
Status(id) == IF id \in Ids(images) THEN Find(images, id).status ELSE "absent"
InFlight(r) == runs[r].pc \in {"dims", "dual", "bgI", "bgP"}

\* C1 (termination): a job that is processing eventually is done or in
\* error, or has left the collection, once every awaited operation settles
C1_Termination ==
  \A id \in JobIds :
    (Status(id) = "processing") ~> (Status(id) \in {"done", "error", "absent"})

\* a re-run that overlapped the first run has ended and the job is settled
C1_Witness ==
  \E r, q \in RunIds :
    /\ r # q
    /\ runs[r].id = runs[q].id
    /\ runs[r].pc = "ended" /\ runs[q].pc = "ended"
    /\ runs[q].kind = "reprocess"
    /\ Status(runs[r].id) \in {"done", "error"}

\* the run started last for a job (0 when none was started)
LatestRun(id) ==
  LET started == { r \in RunIds : runs[r].pc # "unused" /\ runs[r].id = id }
  IN  IF started = {} THEN 0 ELSE CHOOSE r \in started : \A q \in started : q <= r

Results(img) == { img.imglyBlob, img.photoroomBlob } \ { NullBlob }

\* C2 (no stale-result leakage): every result a done job stores is the
\* output of the run started last for that job
C2_NoStaleResult ==
  \A i \in 1..Len(images) :
    images[i].status = "done" =>
      \A b \in Results(images[i]) : b.run = LatestRun(images[i].id)

\* C3 (dimension edits): updateImageDimensions and updateBulkDimensions write
\* dimensions, resizeMode and maintainAspectRatio of the targeted jobs and
\* nothing else, and start no run
DimensionsOnly(targets) ==
  /\ runs' = runs
  /\ Len(images') = Len(images)
  /\ \A i \in 1..Len(images) :
       IF images[i].id \in targets
       THEN /\ images'[i].dimensions = <<EditWidth, EditHeight>>
            /\ \A f \in DOMAIN images[i] \ {"dimensions", "resizeMode", "maintainAspectRatio"} :
                 images'[i][f] = images[i][f]
       ELSE images'[i] = images[i]

C3_DimensionEditsFrame ==
  [][ /\ \A id \in JobIds, mode \in ModeArgs, lock \in LockArgs :
           updateImageDimensions(id, EditWidth, EditHeight, mode, lock)
             => DimensionsOnly({id})
      /\ \A mode \in ModeArgs, lock \in LockArgs :
           updateBulkDimensions(EditWidth, EditHeight, mode, lock)
             => DimensionsOnly(JobIds) ]_vars

\* a done job with a stored result carries edited dimensions and mode
C3_Witness ==
  \E i \in 1..Len(images) :
    /\ images[i].status = "done"
    /\ images[i].imglyBlob # NullBlob
    /\ images[i].dimensions = <<EditWidth, EditHeight>>
    /\ images[i].resizeMode = "fill"

\* C4 (provider failures): the settling of the provider calls never moves a
\* job to error, and a run that ends without a compositing failure leaves its
\* job done with this run's result stored exactly for the providers whose
\* removal succeeded
C4_ProviderFailureNotError ==
  [][ \A r \in RunIds :
        LET id == runs[r].id IN
        /\ (runs[r].pc = "dual" /\ runs'[r] # runs[r] /\ id \in Ids(images))
             => (Status(id)' = "error" => Status(id) = "error")
        /\ ( /\ runs[r].pc \in {"dual", "bgI", "bgP"}
             /\ runs'[r].pc = "ended"
             /\ ~ imglyBackgroundSettle(r, FALSE)
             /\ ~ photoroomBackgroundSettle(r, FALSE)
             /\ id \in Ids(images) )
             => /\ Find(images', id).status = "done"
                /\ Find(images', id).imglyBlob =
                     IF runs[r].imgly = "ok"
                     THEN applyWhiteBackground(RemovedBlob(r, "imgly")) ELSE NullBlob
                /\ Find(images', id).photoroomBlob =
                     IF runs[r].photoroom = "ok"
                     THEN applyWhiteBackground(RemovedBlob(r, "photoroom")) ELSE NullBlob
    ]_vars

\* the remote provider was configured and failed, the local one succeeded
C4_Witness ==
  \E i \in 1..Len(images) :
    /\ photoroomReady
    /\ images[i].status = "done"
    /\ images[i].imglyBlob # NullBlob
    /\ images[i].photoroomBlob = NullBlob

\* C5 (write-after-delete): a step of a run whose job has left the
\* collection leaves the collection unchanged, and a removed id never
\* comes back
C5_WriteAfterDelete ==
  [][ /\ \A r \in RunIds :
           (InFlight(r) /\ runs[r].id \notin Ids(images) /\ runs'[r] # runs[r])
             => images' = images
      /\ \A id \in 1..nextId : id \notin Ids(images) => id \notin Ids(images') ]_vars

\* a run has gone on to its last compositing step after its job was removed
C5_Witness ==
  \E r \in RunIds :
    /\ runs[r].pc = "bgP"
    /\ runs[r].reported # 0
    /\ runs[r].id \notin Ids(images)

\* C6 (watermark baked in): the results a watermarked job's re-run has
\* stored are the watermark composited onto the white-background buffer
C6_WatermarkComposited ==
  \A i \in 1..Len(images) :
    LET r == LatestRun(images[i].id) IN
    ( /\ images[i].status = "done"
      /\ images[i].watermark # NoWatermark
      /\ r # 0 /\ runs[r].kind = "reprocess" /\ runs[r].pc = "ended" )
      => \A b \in Results(images[i]) :
           b.run = r =>
             b = addWatermark(applyWhiteBackground(RemovedBlob(r, b.prov)),
                              images[i].watermark)

\* C7 (watermark re-runs): updateImageWatermark sets the job's watermark and
\* puts that job and no other into processing; applyWatermarkToAll with a
\* global watermark does so for every job, whatever its status
RerunStarted(id) ==
  \E r \in RunIds :
    /\ runs[r].pc = "unused"
    /\ runs'[r].pc = "dual" /\ runs'[r].kind = "reprocess" /\ runs'[r].id = id

C7_WatermarkReruns ==
  [][ /\ \A id \in JobIds, w \in Watermarks \cup {NoWatermark} :
           (updateImageWatermark(id, w) /\ id \in Ids(images))
             => /\ Len(images') = Len(images)
                /\ \A i \in 1..Len(images) :
                     IF images[i].id = id
                     THEN /\ images'[i].watermark = w
                          /\ images'[i].status = "processing"
                          /\ RerunStarted(id)
                     ELSE images'[i] = images[i]
      /\ (applyWatermarkToAll /\ globalWatermark # NoWatermark)
             => /\ Len(images') = Len(images)
                /\ \A i \in 1..Len(images) :
                     /\ images'[i].id = images[i].id
                     /\ images'[i].watermark = globalWatermark
                     /\ images'[i].status = "processing"
                     /\ RerunStarted(images[i].id) ]_vars

\* two jobs, both re-entered into processing with the global watermark
C7_Witness ==
  /\ Len(images) = 2
  /\ globalWatermark # NoWatermark
  /\ \A i \in 1..2 :
       /\ images[i].status = "processing"
       /\ images[i].watermark = globalWatermark
       /\ LatestRun(images[i].id) # 0
       /\ runs[LatestRun(images[i].id)].kind = "reprocess"
       /\ runs[LatestRun(images[i].id)].pc = "dual"

\* C8 (warm-up failure): the step that follows a failed warm-up puts every
\* job of the upload that triggered it into error, with a message, and
\* starts no run
C8_WarmupFailureMarksError ==
  [][ (warmup.pc = "settled" /\ warmup.failed)
        => /\ runs' = runs
           /\ \A i \in 1..Len(images) :
                (\E k \in 1..Len(warmup.newIds) : warmup.newIds[k] = images[i].id)
                  => /\ images'[i].status = "error"
                     /\ images'[i].errorMessage # "undef" ]_vars

\* C9 (dispatch): once the provider is warm, an idle job is dispatched
C9_Dispatch ==
  \A id \in JobIds :
    (Status(id) = "idle" /\ isInitialized) ~> (Status(id) # "idle")

\* the job of a second upload, made with the first job still in the
\* collection, is processing
C9_Witness ==
  /\ Len(images) = 2
  /\ isInitialized
  /\ images[2].status = "processing"
  /\ \E r \in RunIds : runs[r].id = images[2].id /\ runs[r].kind = "process"

\* C10 (done = no work outstanding): no provider call and no compositing
\* step of any run of a done job is in flight
C10_NoWorkOutstanding ==
  \A i \in 1..Len(images) :
    images[i].status = "done" =>
      ~ \E r \in RunIds :
          runs[r].id = images[i].id /\ runs[r].pc \in {"dual", "bgI", "bgP"}

\* C11 (re-run clears results): while a job is processing in a re-run, and
\* when that re-run has ended in error, the job stores no result of an
\* earlier run
C11_RerunClearsResults ==
  \A i \in 1..Len(images) :
    LET r == LatestRun(images[i].id) IN
    ( /\ r # 0
      /\ runs[r].kind = "reprocess"
      /\ \/ images[i].status = "processing" /\ InFlight(r)
         \/ images[i].status = "error" /\ runs[r].pc = "ended" )
      => \A b \in Results(images[i]) : b.run = r

C13_RenameFrame ==
  [][ \A id \in JobIds, name \in NewNames :
        updateImageName(id, name)
          => /\ runs' = runs
             /\ Len(images') = Len(images)
             /\ \A i \in 1..Len(images) :
                  IF images[i].id = id
                  THEN /\ images'[i].newName = name
                       /\ \A f \in DOMAIN images[i] \ {"newName"} :
                            images'[i][f] = images[i][f]
                  ELSE images'[i] = images[i]
             /\ id \notin Ids(images) => images' = images ]_vars

\* a job renamed while it was processing has finished, next to a job that
\* keeps the name taken from its file
C13_Witness ==
  /\ Len(images) = 2
  /\ images[1].newName \in NewNames
  /\ images[1].status = "done"
  /\ images[1].imglyBlob # NullBlob
  /\ images[2].newName = StripExt(Files[images[2].originalFile].name)

\* C14 (credential fallback): when the body of a 402 or 401 answer to a
\* request made with the primary key has been read and a sandbox key is
\* configured, the call makes one more request, with the sandbox key; and a
\* call that has made its second request makes no further one
C14_CredentialFallback ==
  [][ \A r \in RunIds :
        /\ ( /\ textSettle(r, TRUE)
             /\ runs[r].status \in {401, 402}
             /\ runs[r].key = "apiKey"
             /\ sandboxKey )
             => /\ runs'[r].http = "fetch"
                /\ runs'[r].key = "sandboxKey"
                /\ runs'[r].requests = runs[r].requests + 1
        /\ ( /\ textSettle(r, TRUE) \/ textSettle(r, FALSE)
             /\ runs[r].requests = 2 )
             => runs'[r].http = "none" ]_vars

\* C15 (bounded requests): a call makes at most two requests; a second
\* request is made only when the body of a 402 answer to the call's first
\* request, made with the primary key, has been read, and it carries the
\* sandbox key; any other answer, an unreadable body and a network error end
\* the call with a failure, no further request and no credential switch;
\* and every call returns
C15_BoundedRequests ==
  /\ [](\A r \in RunIds : runs[r].requests <= 2)
  /\ [][ \A r \in RunIds :
           /\ (runs[r].requests > 0 /\ runs'[r].requests > runs[r].requests)
                => /\ runs[r].http = "text"
                   /\ runs[r].status = 402
                   /\ runs[r].key = "apiKey"
                   /\ runs[r].requests = 1
                   /\ runs'[r].key = "sandboxKey"
           /\ ( \/ fetchFail(r)
                \/ textSettle(r, FALSE)
                \/ textSettle(r, TRUE) /\ runs[r].status # 402 )
                => /\ runs'[r].http = "none"
                   /\ runs'[r].photoroom # "ok"
                   /\ runs'[r].requests \in {0, runs[r].requests}
                   /\ UNCHANGED serviceVars ]_vars
  /\ \A r \in RunIds : (runs[r].http # "none") ~> (runs[r].http = "none")

\* a call has returned the blob of its second request, made with the
\* sandbox key
C15_Witness ==
  \E r \in RunIds :
    /\ runs[r].requests = 2
    /\ runs[r].key = "sandboxKey"
    /\ runs[r].photoroom = "ok"
    /\ usingSandbox

Resized(mode) == canvas.op = "resize" /\ canvas.pc = "done" /\ canvas.mode = mode

\* C17 (fit): the draw size is within the target, one side equal to the
\* target and the other the scaled side rounded to a nearest integer; the
\* offsets are not negative, round((target - scaled) / 2) on the scaled axis
\* and 0 on the other; 800x600 into 400x400 gives 400x300 at (0, 50)
C17_Fit ==
  Resized("fit") =>
    LET ow == canvas.a[1]  oh == canvas.a[2]
        tw == canvas.b[1]  th == canvas.b[2]
        c == canvas.calc
    IN  /\ c.width <= tw /\ c.height <= th
        /\ c.offsetX >= 0 /\ c.offsetY >= 0
        /\ \/ /\ c.width = tw
              /\ 2 * Abs(c.height * ow - tw * oh) <= ow
              /\ c.offsetX = 0
              /\ c.offsetY = RoundHalf(th - c.height)
           \/ /\ c.height = th
              /\ 2 * Abs(c.width * oh - th * ow) <= oh
              /\ c.offsetY = 0
              /\ c.offsetX = RoundHalf(tw - c.width)
        /\ (canvas.a = <<800, 600>> /\ canvas.b = <<400, 400>>)
             => c = [width |-> 400, height |-> 300, offsetX |-> 0, offsetY |-> 50]

\* 800x600 has been fitted into 400x400
C17_Witness ==
  /\ Resized("fit")
  /\ canvas.a = <<800, 600>> /\ canvas.b = <<400, 400>>
  /\ canvas.calc.height = 300

\* C18 (fill): the draw size covers the target, the offsets are not
\* positive, the crop window of the target's size at (|offsetX|, |offsetY|)
\* lies inside the scaled image, and it is drawn over the whole output
\* canvas, which has the target's size
C18_Fill ==
  Resized("fill") =>
    LET tw == canvas.b[1]  th == canvas.b[2]
        c == canvas.calc
    IN  /\ c.width >= tw /\ c.height >= th
        /\ c.offsetX <= 0 /\ c.offsetY <= 0
        /\ canvas.src.x = Whole(Abs(c.offsetX)) /\ canvas.src.y = Whole(Abs(c.offsetY))
        /\ canvas.src.w = Whole(tw) /\ canvas.src.h = Whole(th)
        /\ canvas.src.x[1] >= 0 /\ canvas.src.y[1] >= 0
        /\ canvas.src.x[1] + tw <= c.width
        /\ canvas.src.y[1] + th <= c.height
        /\ canvas.out = <<tw, th>>
        /\ canvas.dst = [x |-> Whole(0), y |-> Whole(0), w |-> Whole(tw), h |-> Whole(th)]

\* 800x600 has been filled into 400x400, cropped on both sides
C18_Witness ==
  /\ Resized("fill")
  /\ canvas.a = <<800, 600>> /\ canvas.b = <<400, 400>>
  /\ canvas.calc.width > 400
  /\ canvas.src.x[1] > 0

\* C19 (stretch): the draw region is the target, at offset 0, and the output
\* canvas has the target's size, whatever the source size
C19_Stretch ==
  Resized("stretch") =>
    LET tw == canvas.b[1]  th == canvas.b[2]
    IN  /\ canvas.calc = [width |-> tw, height |-> th, offsetX |-> 0, offsetY |-> 0]
        /\ canvas.out = <<tw, th>>
        /\ canvas.dst = [x |-> Whole(0), y |-> Whole(0), w |-> Whole(tw), h |-> Whole(th)]

\* a source has been stretched into a target of another aspect ratio
C19_Witness ==
  /\ Resized("stretch")
  /\ canvas.a = <<800, 600>> /\ canvas.b = <<3, 7>>
  /\ canvas.calc.width = 3 /\ canvas.calc.height = 7

\* C20 (watermark): the drawn watermark is no larger than the watermark
\* image and than scale times the base image, on both axes; it keeps the
\* watermark's aspect ratio, keeps its natural size when that fits, and is
\* centred; the output canvas has the base image's size
C20_WatermarkNeverEnlarged ==
  (canvas.op = "watermark" /\ canvas.pc = "done") =>
    LET bw == canvas.a[1]  bh == canvas.a[2]
        ww == canvas.b[1]  wh == canvas.b[2]
        d == canvas.dst
        maxW == Times(Whole(bw), canvas.scale)
        maxH == Times(Whole(bh), canvas.scale)
    IN  /\ Leq(d.w, Whole(ww)) /\ Leq(d.h, Whole(wh))
        /\ Leq(d.w, maxW) /\ Leq(d.h, maxH)
        /\ Eq(Times(d.w, Whole(wh)), Times(d.h, Whole(ww)))
        /\ (Leq(Whole(ww), maxW) /\ Leq(Whole(wh), maxH)) => (Eq(d.w, Whole(ww)) /\ Eq(d.h, Whole(wh)))
        /\ Eq(d.x, Halve(Minus(Whole(bw), d.w)))
        /\ Eq(d.y, Halve(Minus(Whole(bh), d.h)))
        /\ canvas.out = <<bw, bh>>

\* a watermark larger than the base has been shrunk, and is not square
C20_Witness ==
  /\ canvas.op = "watermark" /\ canvas.pc = "done"
  /\ canvas.a = <<4, 4>> /\ canvas.b = <<8, 6>>
  /\ canvas.scale = <<1, 2>>
  /\ Eq(canvas.dst.w, Whole(2))
  /\ Eq(canvas.dst.h, <<3, 2>>)

\* C22 (no implicit eviction): the set of job ids shrinks only in a
\* removeImage step, which takes out the job with that id and leaves the
\* others as they are, or in a clearAll step, which empties the collection
C22_NoImplicitEviction ==
  [][ (Ids(images) \ Ids(images')) # {}
        => \/ \E id \in JobIds :
                /\ removeImage(id)
                /\ Ids(images) \ Ids(images') = {id}
                /\ images' = SelectSeq(images, LAMBDA img : img.id # id)
           \/ clearAll /\ images' = << >> ]_vars

\* a job that ended in error is still in the collection after another job
\* was removed
C22_Witness ==
  /\ nextId = 2
  /\ Len(images) = 1
  /\ images[1].status = "error"
  /\ \E r \in RunIds : runs[r].id \notin Ids(images) /\ runs[r].pc = "ended"

\* the file name up to its last dot, when a dot is followed by at least one
\* character and by no other dot or slash
WithoutExtension(name) ==
  IF \E k \in 1..(Len(name) - 1) :
       name[k] = "." /\ \A j \in (k + 1)..Len(name) : name[j] \notin {".", "/"}
  THEN LET k == CHOOSE d \in 1..(Len(name) - 1) :
                  name[d] = "." /\ \A j \in (d + 1)..Len(name) : name[j] \notin {".", "/"}
       IN  SubSeq(name, 1, k - 1)
  ELSE name

C25_StageOnlyWhileProcessing ==
  \A i \in 1..Len(images) :
    images[i].status \in {"idle", "done", "error"} => images[i].processingStage = "undef"

\* C26 (error message): a job has an errorMessage only if its status is error
C26_ErrorMessageOnlyIfError ==
  \A i \in 1..Len(images) :
    images[i].errorMessage # "undef" => images[i].status = "error"

\* a run of the job starts in this step
RunStarts(id) ==
  \E r \in RunIds : runs[r].pc = "unused" /\ runs'[r].pc # "unused" /\ runs'[r].id = id

\* C24 (monotonic progress): while a job stays in processing and no run of
\* it starts, neither imglyProgress nor photoroomProgress decreases; and the
\* progress values of a job that has been started are integers in 0..100
C24_ProgressMonotonic ==
  /\ [][ \A i \in 1..Len(images) :
           ( /\ images[i].status = "processing"
             /\ images[i].id \in Ids(images')
             /\ Find(images', images[i].id).status = "processing"
             /\ ~RunStarts(images[i].id) )
             => /\ Find(images', images[i].id).imglyProgress >= images[i].imglyProgress
                /\ Find(images', images[i].id).photoroomProgress
                     >= images[i].photoroomProgress ]_vars
  /\ [](\A i \in 1..Len(images) :
          images[i].status # "idle"
            => /\ images[i].imglyProgress \in 0..100
               /\ images[i].photoroomProgress \in 0..100)

PcRank(pc) ==
  CASE pc = "unused" -> 0 [] pc = "dims" -> 1 [] pc = "dual" -> 2
    [] pc = "bgI" -> 3 [] pc = "bgP" -> 4 [] pc = "ended" -> 5

StageRank(stage) ==
  CASE stage = "removing-bg" -> 1 [] stage = "applying-bg" -> 2
    [] stage = "finalizing" -> 3 [] stage = "undef" -> 4

\* C27 (ordering within a run): a run composites the imgly (Photoroom)
\* image only when that provider's removal succeeded and the other provider
\* has settled; a run never goes back to an earlier resume point; the tag a
\* run writes is applying-bg when it leaves the removal, and finalizing
\* (cleared after it by processImage) when it ends with done; and with no
\* other run ever started for the job its tag only moves forwards
C27_OrderWithinRun ==
  /\ [](\A r \in RunIds :
          /\ runs[r].pc = "bgI" => (runs[r].imgly = "ok" /\ runs[r].photoroom # "pending")
          /\ runs[r].pc = "bgP" => (runs[r].photoroom = "ok" /\ runs[r].imgly # "pending")
          /\ runs[r].imglyWithBg # NullBlob => runs[r].imgly = "ok")
  /\ [][ \A r \in RunIds :
           /\ PcRank(runs'[r].pc) >= PcRank(runs[r].pc)
           /\ (InFlight(r) /\ runs'[r] # runs[r] /\ runs[r].id \in Ids(images))
                => LET old == Find(images, runs[r].id)
                       new == Find(images', runs[r].id)
                   IN  /\ (runs[r].pc = "dual" /\ runs'[r].pc \in {"bgI", "bgP"})
                            => new.processingStage = "applying-bg"
                       /\ (runs'[r].pc = "ended" /\ new.status = "done")
                            => new.processingStage \in {"finalizing", "undef"}
                       /\ (\A q \in RunIds \ {r} : runs[q].id # runs[r].id)
                            => StageRank(new.processingStage)
                                 >= StageRank(old.processingStage) ]_vars

\* both removals succeeded and the run composites the second image
C27_Witness ==
  \E r \in RunIds :
    /\ runs[r].pc = "bgP"
    /\ runs[r].imglyWithBg # NullBlob
    /\ runs[r].id \in Ids(images)
    /\ Find(images, runs[r].id).processingStage = "applying-bg"

\* C30 (job isolation): a step of a run changes no field of any job other
\* than the run's own, and neither adds nor removes a job
C30_JobIsolation ==
  [][ \A r \in RunIds :
        (InFlight(r) /\ runs'[r] # runs[r])
          => /\ Len(images') = Len(images)
             /\ \A i \in 1..Len(images) :
                  images[i].id # runs[r].id => images'[i] = images[i] ]_vars

\* two jobs are processing at once, one of them with progress reported by
\* its imgly call
C30_Witness ==
  /\ Len(images) = 2
  /\ images[1].status = "processing" /\ images[2].status = "processing"
  /\ images[1].imglyProgress = 10 + Round04(50)
  /\ images[2].imglyProgress = 10
  /\ images[2].processingStage = "removing-bg"

Pending(run) == { p \in {"imgly", "photoroom"} : run[p] = "pending" }

\* C28 (the dual call never rejects): while a run waits in
\* removeBackgroundDual both provider calls have been started; the run
\* leaves it in the step in which the last pending call settles, never
\* through the catch block; and the result it goes on with holds, for each
\* provider, either a blob or an error message, the blob exactly when that
\* provider's call succeeded
C28_DualNeverRejects ==
  /\ [](\A r \in RunIds :
          /\ runs[r].pc = "dual"
               => /\ runs[r].imgly \in {"pending", "ok", "fail"}
                  /\ runs[r].photoroom \in {"pending", "ok", "fail"}
                  /\ Pending(runs[r]) # {}
                  /\ (runs[r].photoroom = "pending") = (runs[r].http # "none")
          /\ runs[r].pc \in {"bgI", "bgP"}
               => LET d == DualResult(runs[r])
                  IN  /\ Pending(runs[r]) = {}
                      /\ (d.imglyBlob # "null") = (runs[r].imgly = "ok")
                      /\ (d.imglyBlob # "null") # (d.imglyError # "undef")
                      /\ (d.photoroomBlob # "null") = (runs[r].photoroom = "ok")
                      /\ (d.photoroomBlob # "null") # (d.photoroomError # "undef"))
  /\ [][ \A r \in RunIds :
           (runs[r].pc = "dual" /\ runs'[r].pc # "dual")
             => /\ Cardinality(Pending(runs[r])) = 1
                /\ runs[r].id \in Ids(images)
                     => /\ Find(images', runs[r].id).status \in {"processing", "done"}
                        /\ Find(images', runs[r].id).errorMessage
                             = Find(images, runs[r].id).errorMessage
                /\ runs'[r].pc = "ended"
                     => /\ runs[r].imgly # "ok" /\ runs[r].photoroom # "ok"
                        /\ runs[r].id \in Ids(images)
                             => Results(Find(images', runs[r].id)) = {} ]_vars

\* the imgly call succeeded and the Photoroom call, which was made, failed:
\* the run goes on with the imgly image alone
C28_Witness ==
  \E r \in RunIds :
    /\ photoroomReady
    /\ runs[r].pc = "bgI"
    /\ runs[r].requests = 1
    /\ DualResult(runs[r]).imglyBlob = "blob"
    /\ DualResult(runs[r]).photoroomError # "undef"

\* C29 (credential latch): usingSandbox, once true, stays true; from then on
\* currentKey is the sandbox key and every request issued carries it
C29_SandboxLatch ==
  /\ [][usingSandbox => (usingSandbox' /\ currentKey' = "sandboxKey")]_vars
  /\ [](usingSandbox => currentKey = "sandboxKey")
  /\ [][ \A r \in RunIds :
           (usingSandbox /\ runs'[r].requests > runs[r].requests)
             => runs'[r].key = "sandboxKey" ]_vars

\* after the switch a later call has sent its first request with the
\* sandbox key
C29_Witness ==
  /\ usingSandbox
  /\ \E r \in RunIds :
       /\ runs[r].http = "fetch"
       /\ runs[r].requests = 1
       /\ runs[r].key = "sandboxKey"

\* C21 (export is non-destructive): no step of an export handler, whether a
\* resize or the archive step succeeds or fails, changes the jobs, the runs
\* or any other state of the store; and however earlier exports ended, the
\* handlers can be invoked whenever their own conditions hold
C21_ExportNonDestructive ==
  /\ [][ downloads' # downloads
           => /\ images' = images
              /\ runs' = runs
              /\ UNCHANGED << isModelLoading, modelLoadError, globalWatermark,
                              isInitialized, isLoading, warmup, nextId >> ]_vars
  /\ [](\A e \in DownloadIds :
          (Quiet /\ FreeDownload(e))
            => /\ \A provider \in Providers :
                    canDownload => ENABLED handleDownloadAll(e, provider)
               /\ \A id \in Ids(images) :
                    /\ Find(images, id).imglyBlob # NullBlob
                         => ENABLED handleDownloadImgly(e, id)
                    /\ Find(images, id).photoroomBlob # NullBlob
                         => ENABLED handleDownloadPhotoroom(e, id))

\* after an export whose archive step failed, the export has been invoked
\* again, one of its resizes has failed and it is building the archive from
\* the others, with a job still done and its results in place
C21_Witness ==
  \E e \in DownloadIds :
    /\ downloads[e].last = "archive-failed"
    /\ downloads[e].pc = "archive"
    /\ downloads[e].errors > 0
    /\ \E id \in Ids(images) :
         /\ Find(images, id).status = "done"
         /\ Cardinality(Results(Find(images, id))) = 2

\* source and target of the resize call have the same aspect ratio
SameRatio == canvas.a[1] * canvas.b[2] = canvas.b[1] * canvas.a[2]

\* C31 (tie-break on equal aspect ratios): when the source ratio equals the
\* target ratio, fit computes what its height-constrained branch computes,
\* and fit, fill and stretch all return width = targetWidth,
\* height = targetHeight, offsetX = offsetY = 0
C31_EqualRatios ==
  (canvas.op = "resize" /\ canvas.pc = "done" /\ SameRatio)
    => /\ canvas.calc = [width |-> canvas.b[1], height |-> canvas.b[2],
                         offsetX |-> 0, offsetY |-> 0]
       /\ canvas.mode = "fit"
            => \A tieDown \in BOOLEAN :
                 canvas.calc = ScaleToHeight(canvas.a[1], canvas.a[2], canvas.b[1],
                                             canvas.b[2], tieDown)

\* an 800x600 source resized by fit into a 4x3 target
C31_Witness ==
  /\ Resized("fit")
  /\ SameRatio
  /\ canvas.a = <<800, 600>>
  /\ canvas.b = <<4, 3>>
  /\ canvas.calc.width = 4

\* C32 (single-result removeBackground falls back to local processing): an
\* invocation returns the Photoroom image exactly when the client was ready
\* and answered with success, returns the imgly image in every other case
\* in which it returns, rejects only after an imgly call failed, and calls
\* the Photoroom client at most once
C32_LegacyFallback ==
  \A c \in LegacyIds :
    /\ legacy[c].remoteCalls <= 1
    /\ legacy[c].remoteCalls = 1 => photoroomReady
    /\ legacy[c].pc = "returned"
         => /\ legacy[c].result \in {"photoroom", "imgly"}
            /\ (legacy[c].result = "photoroom")
                 = (photoroomReady /\ legacy[c].remote = "ok")
            /\ legacy[c].result = "imgly" => legacy[c].localCalls >= 1
    /\ legacy[c].pc = "rejected"
         => /\ legacy[c].localCalls = 2
            /\ legacy[c].remote # "ok"
    /\ (legacy[c].remote \in {"failed", "quota"} \/ ~photoroomReady)
         => (legacy[c].pc = "idle" \/ legacy[c].localCalls >= 1)

\* the quota of the client is exhausted and the invocation returned the
\* imgly image
C32_Witness ==
  \E c \in LegacyIds :
    /\ legacy[c].pc = "returned"
    /\ legacy[c].remote = "quota"
    /\ legacy[c].remoteCalls = 1
    /\ legacy[c].result = "imgly"

\* C33 (a dimension edit is not overwritten by processing): once a dimension
\* edit has set a job's dimensions to EditSize, they stay EditSize in every
\* step (no file of Files has that natural size, and every edit asks for it)
C33_EditNotOverwritten ==
  [][ \A id \in Ids(images) \cap Ids(images') :
        Find(images, id).dimensions = <<EditWidth, EditHeight>>
          => Find(images', id).dimensions = <<EditWidth, EditHeight>> ]_vars

\* C34 (one run per job): no two runs in flight belong to the same job
C34_OneRunPerJob ==
  \A r \in RunIds, q \in RunIds :
    (r # q /\ InFlight(r) /\ InFlight(q)) => runs[r].id # runs[q].id

\* C35 (done jobs have a target size): every job with status done has
\* width > 0 and height > 0
C35_DoneHasDimensions ==
  \A i \in 1..Len(images) :
    images[i].status = "done"
      => (images[i].dimensions[1] > 0 /\ images[i].dimensions[2] > 0)

\* C36 (requests carry the configured credential): a request is sent with
\* the sandbox key once the client has switched to it and with the key held
\* by apiKey otherwise, and the key sent is not empty
C36_ConfiguredCredential ==
  [][ \A r \in RunIds :
        runs'[r].requests > runs[r].requests
          => /\ runs'[r].key = IF usingSandbox' THEN "sandboxKey" ELSE apiKey
             /\ runs'[r].key # "" ]_vars

\* C37 (concurrent quota answers): whenever a call has read the body of a
\* 402 answer to a request it made with the primary key, and a sandbox key
\* exists, the call goes on with a request that carries the sandbox key
C37_QuotaRetried ==
  [][ \A r \in RunIds :
        ( /\ textSettle(r, TRUE)
          /\ runs[r].status = 402
          /\ runs[r].key # "sandboxKey"
          /\ sandboxKey )
          => /\ runs'[r].http = "fetch"
             /\ runs'[r].key = "sandboxKey" ]_vars

\* C38 (a compositing failure keeps the other provider's work): when a run
\* whose imgly image has been composited ends, whether or not compositing
\* the Photoroom image succeeded, the job holds that run's composited imgly
\* image
C38_CompositeKeepsOther ==
  [][ \A r \in RunIds :
        ( /\ runs[r].pc = "bgP"
          /\ runs[r].imgly = "ok"
          /\ runs'[r].pc # "bgP"
          /\ runs[r].id \in Ids(images') )
          => LET stored == Find(images', runs[r].id).imglyBlob
             IN  /\ stored # NullBlob
                 /\ stored.run = runs[r].imglyWithBg.run
                 /\ stored.white ]_vars

IdsOf(imgs) == [i \in 1..Len(imgs) |-> imgs[i].id]

\* C39 (the collection keeps insertion order): job ids are handed out in
\* upload order and the list is always in that order; every step keeps the
\* jobs that stay in their relative order and puts new jobs behind them;
\* and a bulk rename gives the job at position i the name base_i, so the
\* names are pairwise distinct and follow upload order
C39_InsertionOrder ==
  /\ [](\A i \in 1..Len(images), j \in 1..Len(images) :
          i < j => images[i].id < images[j].id)
  /\ [][ LET kept == SelectSeq(IdsOf(images), LAMBDA id : id \in Ids(images'))
         IN  /\ SubSeq(IdsOf(images'), 1, Len(kept)) = kept
             /\ \A k \in (Len(kept) + 1)..Len(images') :
                  images'[k].id \notin Ids(images) ]_vars
  /\ [][ \A baseName \in NewNames :
           handleBulkRename(baseName)
             => /\ \A i \in 1..Len(images') :
                     images'[i].newName = baseName \o <<"_", ToString(i)>>
                /\ \A i \in 1..Len(images'), j \in 1..Len(images') :
                     i # j => images'[i].newName # images'[j].newName ]_vars

\* two jobs, the second uploaded after the first, carry the bulk names
\* n_1 and n_2 in upload order, and the second is done
C39_Witness ==
  /\ Len(images) = 2
  /\ images[1].id < images[2].id
  /\ images[1].newName = <<"n", "_", "1">>
  /\ images[2].newName = <<"n", "_", "2">>
  /\ images[2].status = "done"
====
